---- MODULE Spec2Model ----
(***************************************************************************)
(* One room of the Chips word game server (src/src): the room object       *)
(* built by createRoom, the socket handlers of src/src/socket/handlers.js, *)
(* the timer-driven turn / vote / round engine of                          *)
(* src/src/game/gameLogic.js and the bot of src/src/config/bot.js.         *)
(*                                                                         *)
(* Rooms are independent (each handler touches only the room of its code), *)
(* so one room code is modelled.  The room object outlives its removal     *)
(* from the registry: callbacks that were scheduled on it keep a reference *)
(* to it and, when they are not cancelled, keep running on it.             *)
(***************************************************************************)
EXTENDS Integers, Sequences, FiniteSets, TLC

VARIABLES
    room,       \* the room object (createRoom), a record of its fields
    reg,        \* "absent" | "live" | "killed": the room code in the rooms Map
    sock,       \* per client socket: "new" | "bound" | "closed"
    pend,       \* callbacks scheduled and not yet run or cancelled (event loop)
    now,        \* Date.now(), re-based to 1 at every turn start
    botSeq,     \* number of bot ids generated so far (`bot-${Date.now()}`)
    emitted,    \* notifications sent by the last handler or callback
    touched     \* whether the last handler or callback called touchRoom

vars == <<room, reg, sock, pend, now, botSeq, emitted, touched>>

----------------------------------------------------------------------------
(* Bounds of the model *)

\* games (rounds) one room may start
MaxRound == 1
\* bot ids one room may generate
MaxBots == 2

----------------------------------------------------------------------------
(* Identifiers and inputs *)

Id(k, n) == <<k, n>>
NullId == Id("null", 0)
Humans == {Id("sock", 1), Id("sock", 2), Id("sock", 3)}
\* the sockets of the two-client specification
Duo == {Id("sock", 1), Id("sock", 2)}
BotId(n) == Id("bot", n)
BotIds == {BotId(n) : n \in 1..(MaxBots + 1)}

\* characters of the raw words clients send
Blank == " "
Lower(c) == CASE c = "A" -> "a" [] c = "B" -> "b" [] OTHER -> c
StripDiacritic(c) == CASE c = "é" -> "e" [] OTHER -> c

RECURSIVE TrimLeft(_)
TrimLeft(w) == IF w # <<>> /\ Head(w) = Blank THEN TrimLeft(Tail(w)) ELSE w
RECURSIVE TrimRight(_)
TrimRight(w) ==
    IF w # <<>> /\ w[Len(w)] = Blank THEN TrimRight(SubSeq(w, 1, Len(w) - 1)) ELSE w

\* wordUtils.js normalizeWord: trim, lower case, accents removed
normalizeWord(w) ==
    IF w = <<>> THEN <<>>
    ELSE LET s == TrimRight(TrimLeft(w))
         IN  [i \in 1..Len(s) |-> StripDiacritic(Lower(s[i]))]

RawWords == { <<"A">>, <<Blank, "b">>, <<"é">>, <<Blank>> }

\* themes of the room and the word bank loadWordSetForTheme resolves for each
\* (a Set in insertion order; a theme without data file gives the empty set)
Themes == {"Couleurs", "Pays"}
WordBank(theme) == IF theme = "Couleurs" THEN << <<"a">>, <<"b">> >> ELSE <<>>

NoTheme == "null"
Range(s) == {s[i] : i \in 1..Len(s)}
Includes(word, letter) == letter \in Range(word)

----------------------------------------------------------------------------
(* Configuration *)

eliminationPopupMs == 2000
gameOverMs == 3500
voteDurationMs == 2000
LevelCap == 20
PunishFrom == 10

levelRanges ==
    << [start |-> 1,  end |-> 10, startSec |-> 10, endSec |-> 8],
       [start |-> 10, end |-> 15, startSec |-> 8,  endSec |-> 6],
       [start |-> 15, end |-> 20, startSec |-> 6,  endSec |-> 4] >>

\* Math.round of the non-negative rational n / d
RoundDiv(n, d) == (2 * n + d) \div (2 * d)

RECURSIVE TurnMsFrom(_, _)
TurnMsFrom(level, i) ==
    IF i > Len(levelRanges) THEN 1000 * levelRanges[Len(levelRanges)].endSec
    ELSE LET g == levelRanges[i]
             steps == g.end - g.start
         IN  IF level < g.start THEN 1000 * g.startSec
             ELSE IF level <= g.end
                  THEN IF steps = 0 THEN 1000 * g.endSec
                       ELSE RoundDiv(1000 * (g.startSec * steps
                                             - (level - g.start) * (g.startSec - g.endSec)),
                                     steps)
                  ELSE TurnMsFrom(level, i + 1)

\* faulty variant of turnMsOf (whole seconds, rounded): C19 rejects it
turnMsWholeSec(level) == 1000 * RoundDiv(TurnMsFrom(level, 1), 1000)

\* Math.round(getTurnDuration(level) * 1000)
turnMsOf(level) == TurnMsFrom(level, 1)

\* delay of the bot submission timer: floor(duration * delayFactor), at most duration - 50
Max(a, b) == IF a >= b THEN a ELSE b
Min(a, b) == IF a <= b THEN a ELSE b
\* faulty variant of botDelay (the bot submission is due after the turn timeout): C25 rejects it
lateBot(dur) == dur + 1

botDelay(dur) == Max(0, Min(dur - 50, dur \div 2))

----------------------------------------------------------------------------
(* The room object *)

NoTimer == [kind |-> "none"]

createRoom ==
    [ order |-> <<>>,            \* players Map: keys in insertion order
      players |-> <<>>,          \* players Map: id -> {score, alive, online}
      hostId |-> NullId,
      round |-> 0,
      theme |-> NoTheme,
      turn |-> 0,
      accepting |-> FALSE,
      submissions |-> <<>>,      \* Map id -> word
      usedWords |-> {},
      wordSet |-> <<>>,
      timers |-> [nextTurn |-> NoTimer, endTurn |-> NoTimer, newRound |-> NoTimer,
                  voteEnd |-> NoTimer, botSubmit |-> NoTimer],
      votes |-> <<>>,            \* Map target id -> Set of voter ids
      votingActive |-> FALSE,
      gameActive |-> FALSE,
      level |-> 0,
      punishedLetters |-> {},
      botId |-> NullId,
      turnStartedAt |-> 0,       \* null until the first turn
      currentTurnDuration |-> 0, \* null until the first turn
      submissionTimes |-> <<>> ]

Has(m, k) == k \in DOMAIN m
Put(m, k, v) == [x \in (DOMAIN m) \cup {k} |-> IF x = k THEN v ELSE m[x]]
Del(m, k) == [x \in (DOMAIN m) \ {k} |-> m[x]]

IsAlive(r, id) == Has(r.players, id) /\ r.players[id].alive

aliveIds(r) == SelectSeq(r.order, LAMBDA id : r.players[id].alive)
AliveSet(r) == {id \in DOMAIN r.players : r.players[id].alive}

\* faulty variant of onlineCount (the bot is not counted): C40 rejects it
onlineHumans(r) ==
    Cardinality({id \in DOMAIN r.players : id \notin BotIds /\ r.players[id].online})

onlineCount(r) == Cardinality({id \in DOMAIN r.players : r.players[id].online})

\* the count every handler makes: online players other than the bot
humanOnline(r) ==
    Cardinality({id \in DOMAIN r.players : id # r.botId /\ r.players[id].online})

NewPlayer == [score |-> 0, alive |-> FALSE, online |-> TRUE]

\* Map.set: a new key goes last, an existing key keeps its place
SetPlayer(r, id, p) ==
    [r EXCEPT !.order = IF Has(r.players, id) THEN @ ELSE Append(@, id),
              !.players = Put(@, id, p)]

\* faulty variant of addBot (no bot joins the roster): C11 rejects it
noBot(r, newId) == r

addBot(r, newId) ==
    IF r.botId # NullId THEN r
    ELSE [SetPlayer(r, newId, NewPlayer) EXCEPT !.botId = newId]

\* faulty variant of removeBot (the bot stays): C29 rejects it
keepBot(r) == r

removeBot(r) ==
    IF r.botId # NullId
    THEN [r EXCEPT !.order = SelectSeq(@, LAMBDA id : id # r.botId),
                   !.players = Del(@, r.botId),
                   !.botId = NullId]
    ELSE r

\* whether a handler that calls addBot would generate a new bot id
NeedsBot(r) == r.botId = NullId /\ humanOnline(r) < 2

----------------------------------------------------------------------------
(* A handler or callback in progress: the room it mutates, the callbacks   *)
(* scheduled, the notifications sent so far and whether touchRoom ran.     *)

Start(r, p) == [room |-> r, pend |-> p, out |-> <<>>, touched |-> FALSE]

Emit(m, e) == [m EXCEPT !.out = Append(@, e)]
touchRoom(m) == [m EXCEPT !.touched = TRUE]

\* room.timers[name] = setTimeout(cb, ...)
Arm(m, name, cb) ==
    [m EXCEPT !.pend = @ \cup {cb}, !.room.timers[name] = cb]
\* faulty variant of ArmUntracked (the callback is never scheduled): C16 rejects it
dropCallback(m, cb) == m

\* setTimeout(cb, ...) whose handle is not kept
ArmUntracked(m, cb) == [m EXCEPT !.pend = @ \cup {cb}]

TimerNames == {"nextTurn", "endTurn", "newRound", "voteEnd", "botSubmit"}

clearRoomTimers(m) ==
    [m EXCEPT !.pend = @ \ {m.room.timers[n] : n \in TimerNames},
              !.room.timers = [n \in TimerNames |-> NoTimer]]

killRoom(m, reason) ==
    Emit(clearRoomTimers(m), [ev |-> "room:closed", reason |-> reason])

----------------------------------------------------------------------------
(* src/src/config/bot.js *)

\* faulty variant of skipWord (only used words are skipped): C30 rejects it
skipUsedOnly(r, word) == word \in r.usedWords

\* the four tests of pickBotWord's loop that end in `continue`
skipWord(r, word) ==
    \/ word \in r.usedWords
    \/ Has(r.submissions, r.botId)
    \/ \E l \in r.punishedLetters : Includes(word, l)
    \/ \E k \in DOMAIN r.submissions : r.submissions[k] = word

RECURSIVE PickFrom(_, _)
PickFrom(r, i) ==
    IF i > Len(r.wordSet) THEN <<>>
    ELSE LET word == r.wordSet[i]
         IN  IF skipWord(r, word)
             THEN PickFrom(r, i + 1)
             ELSE word

\* the first eligible word of the word set, or the empty word (null)
pickBotWord(r) == PickFrom(r, 1)

BotSubmitCb(at) == [kind |-> "botSubmit", at |-> at]

scheduleBotSubmission(m, t) ==
    LET m1 == IF m.room.timers.botSubmit # NoTimer
              THEN [m EXCEPT !.pend = @ \ {m.room.timers.botSubmit},
                             !.room.timers.botSubmit = NoTimer]
              ELSE m
        r == m1.room
    IN  IF r.botId = NullId THEN m1
        ELSE IF ~IsAlive(r, r.botId) THEN m1
        ELSE IF ~r.accepting \/ r.currentTurnDuration = 0 THEN m1
        ELSE Arm(m1, "botSubmit", BotSubmitCb(t + botDelay(r.currentTurnDuration)))

\* the callback of the bot submission timer
botSubmitFire(m, t) ==
    LET r == m.room
        word == pickBotWord(r)
    IN  IF ~r.accepting THEN m
        ELSE IF word = <<>> THEN m
        ELSE IF Has(r.submissions, r.botId) THEN m
        ELSE Emit([m EXCEPT !.room.submissions = Put(@, r.botId, word),
                            !.room.submissionTimes = Put(@, r.botId, t)],
                  [ev |-> "turn:progress", submitted |-> Cardinality(DOMAIN r.submissions) + 1])

----------------------------------------------------------------------------
(* src/src/game/gameLogic.js *)

WordSetLoadedCb(theme) == [kind |-> "wordSetLoaded", theme |-> theme]
StartNextTurnCb == [kind |-> "startNextTurn"]
EndTurnCb(at) == [kind |-> "endTurn", at |-> at]
FinalizeTurnCb(eliminated) == [kind |-> "finalizeTurn", eliminated |-> eliminated]
FinalizeVoteCb == [kind |-> "finalizeVote"]
ProceedCb(byVote) == [kind |-> "proceedAfterPopup", eliminatedByVote |-> byVote]
GameOverCb == [kind |-> "gameOver"]

\* startNewRound up to its await of the word bank
startNewRound(m, theme) ==
    ArmUntracked([m EXCEPT !.room.round = @ + 1,
                           !.room.turn = 0,
                           !.room.theme = theme,
                           !.room.usedWords = {},
                           !.room.submissions = <<>>],
                 WordSetLoadedCb(theme))

\* startNewRound after the await
\* faulty variant of revived (offline players are revived too): C38 rejects it
revivedAll(p) == TRUE

\* if (p.online) p.alive = true
revived(p) == p.online

startNewRoundResume(m, theme) ==
    LET r == m.room
        m1 == [m EXCEPT !.room.wordSet = WordBank(theme),
                        !.room.punishedLetters = {},
                        !.room.players =
                            [id \in DOMAIN r.players |->
                                IF revived(r.players[id])
                                THEN [r.players[id] EXCEPT !.alive = TRUE]
                                ELSE r.players[id]]]
        m2 == Emit(Emit(m1, [ev |-> "round:start", round |-> r.round, theme |-> r.theme]),
                   [ev |-> "lobby:update"])
    IN  touchRoom(Arm(m2, "nextTurn", StartNextTurnCb))

WinnerBonus == 3
SurvivorBonus == 1

\* faulty variant of survivorPoint (the point goes to every player): C27 rejects it
pointForAll(p) == SurvivorBonus

\* if (p.alive) p.score += 1
survivorPoint(p) == IF p.alive THEN SurvivorBonus ELSE 0

\* faulty variant of markDead (players stay as they are): C39 rejects it
leftAlive(p) == p

\* p.alive = false
markDead(p) == [p EXCEPT !.alive = FALSE]

endRound(m, winnerId) ==
    LET r == m.room
        hasWinner == winnerId # NullId /\ Has(r.players, winnerId)
        winner == IF hasWinner THEN winnerId ELSE NullId
        scored == [id \in DOMAIN r.players |->
                     [r.players[id] EXCEPT
                        !.score = @ + (IF hasWinner /\ id = winnerId THEN WinnerBonus ELSE 0)
                                    + survivorPoint(r.players[id])]]
        m1 == Emit(m, [ev |-> "round:end", winner |-> winner, round |-> r.round])
        m2 == [m1 EXCEPT !.room.players =
                            [id \in DOMAIN scored |-> markDead(scored[id])],
                         !.room.gameActive = FALSE,
                         !.room.accepting = FALSE,
                         !.room.submissions = <<>>,
                         !.room.theme = NoTheme,
                         !.room.turn = 0,
                         !.room.usedWords = {}]
        m3 == Emit(Emit(m2, [ev |-> "lobby:update"]),
                   [ev |-> "game:end", winner |-> winner, round |-> r.round])
    IN  touchRoom(m3)

\* letters generatePunishedLetters may draw from (a-z in the program)
Alphabet == {"a", "b", "e", "z"}

punishedCount(level) ==
    IF level >= 16 THEN 3 ELSE IF level >= 13 THEN 2 ELSE IF level >= 10 THEN 1 ELSE 0

startNextTurn(m, letters) ==
    LET r == m.room
        alive == aliveIds(r)
        level == r.level + 1
        turnMs == turnMsOf(level)
        m1 == [m EXCEPT !.room.turn = @ + 1,
                        !.room.level = level,
                        !.room.submissions = <<>>,
                        !.room.accepting = TRUE,
                        !.room.turnStartedAt = 1,
                        !.room.currentTurnDuration = turnMs,
                        !.room.submissionTimes = <<>>,
                        !.room.punishedLetters = IF level >= PunishFrom THEN letters ELSE {}]
        m2 == Emit(m1, [ev |-> "turn:start", turn |-> r.turn + 1, turnMs |-> turnMs])
        m3 == Arm(m2, "endTurn", EndTurnCb(1 + turnMs))
    IN  IF Len(alive) <= 1
        THEN endRound(m, IF Len(alive) = 0 THEN NullId ELSE alive[1])
        ELSE touchRoom(scheduleBotSubmission(m3, 1))

\* faulty variant of speedScore (the points are not clamped): C13 rejects it
unclampedScore(submitTs, startedAt, dur) ==
    10 - (((submitTs - startedAt) * 10) \div dur)

\* speed points of a submission made at submitTs
speedScore(submitTs, startedAt, dur) ==
    LET raw == 10 - (((submitTs - startedAt) * 10) \div dur)
    IN  IF raw < 1 THEN 1 ELSE IF raw > 10 THEN 10 ELSE raw

\* faulty variant of keptWords (the words of disqualified submitters are kept
\* too): C14 rejects it
allWords(subs, eliminated) == {subs[sid] : sid \in DOMAIN subs}

\* the words finalizeTurn adds to usedWords
keptWords(subs, eliminated) == {subs[sid] : sid \in (DOMAIN subs) \ eliminated}

finalizeTurn(m, eliminated) ==
    LET r == m.room
        credited == {sid \in DOMAIN r.submissions :
                        /\ r.turnStartedAt # 0 /\ r.currentTurnDuration # 0
                        /\ sid \notin eliminated
                        /\ Has(r.submissionTimes, sid)
                        /\ Has(r.players, sid)}
        used == r.usedWords \cup keptWords(r.submissions, eliminated)
        m1 == [m EXCEPT !.room.players =
                          [id \in DOMAIN r.players |->
                             IF id \in credited
                             THEN [r.players[id] EXCEPT
                                     !.score = @ + speedScore(r.submissionTimes[id],
                                                              r.turnStartedAt,
                                                              r.currentTurnDuration)]
                             ELSE r.players[id]],
                        !.room.usedWords = used,
                        !.room.votes = [sid \in DOMAIN r.submissions |-> {}],
                        !.room.votingActive = TRUE]
        m2 == Emit(Emit(m1, [ev |-> "lobby:update"]),
                   [ev |-> "turn:end", eliminated |-> eliminated, usedWords |-> used])
    IN  touchRoom(Arm(m2, "voteEnd", FinalizeVoteCb))

\* alive players without a submission
noSubmissionIds(r) ==
    {sid \in DOMAIN r.players : r.players[sid].alive /\ ~Has(r.submissions, sid)}

\* faulty variant of duplicateIds (a word needs three submitters): C8 rejects it
tripleIds(subs) ==
    {sid \in DOMAIN subs :
        \E o1 \in DOMAIN subs, o2 \in DOMAIN subs :
            /\ o1 # sid /\ o2 # sid /\ o1 # o2
            /\ subs[o1] = subs[sid] /\ subs[o2] = subs[sid]}

\* submitters of a word that has two submitters or more
duplicateIds(subs) ==
    {sid \in DOMAIN subs : \E other \in DOMAIN subs : other # sid /\ subs[other] = subs[sid]}

endTurn(m) ==
    LET r == m.room
        subs == r.submissions
        noSubmission == noSubmissionIds(r)
        duplicate == duplicateIds(subs)
        eliminated == noSubmission \cup duplicate
        m1 == [m EXCEPT !.room.accepting = FALSE,
                        !.room.players =
                          [id \in DOMAIN r.players |->
                             IF id \in eliminated
                             THEN [r.players[id] EXCEPT !.alive = FALSE]
                             ELSE r.players[id]]]
        m2 == IF DOMAIN subs = {} THEN Emit(m1, [ev |-> "log:message", message |-> "noSubmission"])
              ELSE m1
        m3 == IF duplicate # {}
              THEN Emit(m2, [ev |-> "log:message", message |-> "duplicate"])
              ELSE m2
    IN  IF eliminated # {}
        THEN ArmUntracked(Emit(m3, [ev |-> "elim:popup",
                                    noSubmission |-> noSubmission,
                                    duplicate |-> duplicate \ noSubmission]),
                          FinalizeTurnCb(eliminated))
        ELSE finalizeTurn(m3, eliminated)

\* faulty variant of effThreshold (half the voters are enough): C3 rejects it
effThresholdHalf(n) == n \div 2

\* Math.floor(effective.length / 2) + 1
effThreshold(n) == (n \div 2) + 1

RECURSIVE BestFrom(_, _, _, _)
BestFrom(r, i, bestId, maxScore) ==
    IF i > Len(r.order) THEN bestId
    ELSE LET id == r.order[i]
         IN  IF bestId = NullId \/ r.players[id].score > maxScore
             THEN BestFrom(r, i + 1, id, r.players[id].score)
             ELSE BestFrom(r, i + 1, bestId, maxScore)

\* the id the game-over callback passes to endRound
bestScoreId(r) == BestFrom(r, 1, NullId, 0)

gameOverFire(m) == endRound(m, bestScoreId(m.room))

\* faulty variant of levelExceeded (no level cap): C6 rejects it
levelNeverExceeded(r) == FALSE

levelExceeded(r) == r.level >= LevelCap

proceedAfterPopup(m, eliminatedByVote) ==
    LET r == m.room
        gone == {r.submissions[sid] : sid \in eliminatedByVote \cap DOMAIN r.submissions}
        m1 == [m EXCEPT !.room.players =
                          [id \in DOMAIN r.players |->
                             IF id \in eliminatedByVote
                             THEN [r.players[id] EXCEPT !.alive = FALSE]
                             ELSE r.players[id]],
                        !.room.usedWords = @ \ gone,
                        !.room.votes = <<>>]
        remaining == aliveIds(m1.room)
    IN  IF levelExceeded(r) \/ Len(remaining) <= 1
        THEN Arm(Emit(m1, [ev |-> "log:message", message |-> "gameOver"]),
                 "newRound", GameOverCb)
        ELSE Arm(m1, "nextTurn", StartNextTurnCb)

\* faulty variant of closeVote (the vote stays open): C7 rejects it
keepVote(m) == m

\* the vote is closed and its timer cancelled
closeVote(m) ==
    [m EXCEPT !.room.votingActive = FALSE,
              !.pend = @ \ {m.room.timers.voteEnd},
              !.room.timers.voteEnd = NoTimer]

\* faulty variant of alreadyDead (targets already out are counted again): C26 rejects it
neverDead(r, t) == FALSE

\* if (!room.players.get(targetId)?.alive) continue
alreadyDead(r, t) == ~IsAlive(r, t)

finalizeVote(m) ==
    LET r == m.room
        m1 == closeVote(m)
        aliveBefore == AliveSet(r)
        eliminatedByVote ==
            {t \in DOMAIN r.votes :
                /\ ~alreadyDead(r, t)
                /\ Cardinality(r.votes[t]) >= effThreshold(Cardinality(aliveBefore \ {t}))}
        m2 == Emit(Emit(Emit(m1, [ev |-> "vote:eliminated", ids |-> eliminatedByVote]),
                        [ev |-> "log:message", message |-> "offTopic"]),
                   [ev |-> "elim:popup", offTopic |-> eliminatedByVote])
    IN  IF ~r.votingActive THEN m
        ELSE IF eliminatedByVote # {}
        THEN Arm(m2, "newRound", ProceedCb(eliminatedByVote))
        ELSE proceedAfterPopup(m1, eliminatedByVote)

----------------------------------------------------------------------------
(* src/src/socket/handlers.js *)

GenericError == "Problème de création du Lobby, Demande à Kiddy"
InvalidWord == "Mot invalide! Relis les règles!"

handlePlayerJoin(m, s) ==
    LET r1 == SetPlayer(m.room, s, NewPlayer)
        r2 == IF r1.hostId = NullId THEN [r1 EXCEPT !.hostId = s] ELSE r1
        r3 == IF r2.botId # NullId /\ humanOnline(r2) >= 2 THEN removeBot(r2) ELSE r2
        m1 == Emit([m EXCEPT !.room = r3], [ev |-> "lobby:update"])
    IN  touchRoom(Emit(m1, [ev |-> "ack", to |-> s, ok |-> TRUE, host |-> (r3.hostId = s)]))

\* faulty variant of isHost (any sender passes for the host): C12 rejects it
anyoneHost(r, s) == TRUE

\* socket.id === room.hostId
isHost(r, s) == s = r.hostId

\* handleGameStart and handleGameRestart (the same body)
handleGameStart(m, s, newBot, theme) ==
    LET r == m.room
        r1 == IF humanOnline(r) < 2 THEN addBot(r, newBot) ELSE r
        r2 == [r1 EXCEPT !.gameActive = TRUE, !.level = 0, !.punishedLetters = {}]
    IN  IF ~isHost(r, s) THEN m
        ELSE IF r.gameActive
        THEN Emit(m, [ev |-> "game:error", to |-> s, message |-> GenericError])
        ELSE IF onlineCount(r1) < 2
        THEN Emit([m EXCEPT !.room = r1],
                  [ev |-> "game:error", to |-> s, message |-> GenericError])
        ELSE startNewRound([m EXCEPT !.room = r2], theme)

handleGameMenu(m, s) ==
    IF s # m.room.hostId THEN m ELSE touchRoom(Emit(m, [ev |-> "game:menu"]))

\* faulty variant of alreadyUsed (used words are not looked up): C4 rejects it
neverUsed(r, normalized) == FALSE

alreadyUsed(r, normalized) == normalized \in r.usedWords

\* faulty variant of notAccepting (a word is taken in any phase): C21 rejects it
alwaysAccepting(r) == FALSE

\* !room.accepting
notAccepting(r) == ~r.accepting

\* faulty variant of hasSubmitted (a later word replaces the recorded one): C22
\* rejects it
neverSubmitted(r, s) == FALSE

\* room.submissions.has(socket.id)
hasSubmitted(r, s) == Has(r.submissions, s)

\* faulty variant of submitError (a used word gets a message of its own): C18
\* rejects it
errorByCause(r, normalized) ==
    IF normalized \in r.usedWords THEN "Mot déjà utilisé!" ELSE InvalidWord

\* the payload of turn:error for a rejected word
submitError(r, normalized) == InvalidWord

\* faulty variant of notInBank (an empty word set rejects every word): C31 rejects it
missingFromBank(r, normalized) == normalized \notin Range(r.wordSet)

\* room.wordSet.size > 0 && !room.wordSet.has(normalized)
notInBank(r, normalized) == Len(r.wordSet) > 0 /\ normalized \notin Range(r.wordSet)

handleTurnSubmit(m, s, word, t) ==
    LET r == m.room
        normalized == normalizeWord(word)
        hasPunished == \E letter \in r.punishedLetters : Includes(normalized, letter)
        m1 == [m EXCEPT !.room.submissions = Put(@, s, normalized),
                        !.room.submissionTimes = Put(@, s, t)]
        m2 == Emit(Emit(m1, [ev |-> "turn:ack", to |-> s, lockedWord |-> normalized]),
                   [ev |-> "turn:progress",
                    submitted |-> Cardinality(DOMAIN m1.room.submissions)])
    IN  IF notAccepting(r) THEN m
        ELSE IF ~IsAlive(r, s) THEN m
        ELSE IF normalized = <<>> THEN m
        ELSE IF alreadyUsed(r, normalized) \/ notInBank(r, normalized) \/ hasPunished
        THEN Emit(m, [ev |-> "turn:error", to |-> s,
                      message |-> submitError(r, normalized)])
        ELSE IF hasSubmitted(r, s) THEN m
        ELSE touchRoom(m2)

\* faulty variant of majority (every other player and one more): C10 rejects it
unanimity(effCount) == effCount + 1

\* the early-exit threshold: Math.floor(effCount / 2) + 1
majority(effCount) == (effCount \div 2) + 1

\* faulty variant of selfVote (a vote against oneself passes): C20 rejects it
selfVoteUnseen(s, target) == FALSE

\* target === socket.id
selfVote(s, target) == target = s

handleTurnVote(m, s, target) ==
    LET r == m.room
        votersSet == (IF Has(r.votes, target) THEN r.votes[target] ELSE {}) \cup {s}
        effCount == Cardinality(AliveSet(r) \ {target})
        m1 == [m EXCEPT !.room.votes = Put(@, target, votersSet)]
        word == r.submissions[target]
        m2 == Emit(Emit([m1 EXCEPT !.room.players[target].alive = FALSE,
                                   !.room.usedWords = @ \ {word}],
                        [ev |-> "vote:eliminated", ids |-> {target}]),
                   [ev |-> "lobby:update"])
    IN  IF ~r.votingActive THEN m
        ELSE IF ~IsAlive(r, s) THEN m
        ELSE IF ~IsAlive(r, target) THEN m
        ELSE IF selfVote(s, target) THEN m
        ELSE IF ~Has(r.submissions, target) THEN m
        ELSE IF Has(r.votes, target) /\ s \in r.votes[target] THEN m
        ELSE IF Cardinality(votersSet) >= majority(effCount)
        THEN touchRoom(m2)
        ELSE touchRoom(m1)

RECURSIVE FirstOnline(_, _)
FirstOnline(r, i) ==
    IF i > Len(r.order) THEN NullId
    ELSE IF r.players[r.order[i]].online THEN r.order[i]
    ELSE FirstOnline(r, i + 1)

\* handleDisconnect; the room leaves the registry when the result says so
handleDisconnect(m, s, newBot) ==
    LET r == m.room
        wasHost == s = r.hostId
        r1 == IF Has(r.players, s)
              THEN [r EXCEPT !.players[s].online = FALSE, !.players[s].alive = FALSE]
              ELSE r
        r2 == IF wasHost THEN [r1 EXCEPT !.hostId = FirstOnline(r1, 1)] ELSE r1
        r3 == IF r2.gameActive /\ humanOnline(r2) < 2 THEN addBot(r2, newBot) ELSE r2
        m1 == [m EXCEPT !.room = r3]
    IN  IF onlineCount(r3) = 0 THEN killRoom(m1, "empty")
        ELSE Emit(m1, [ev |-> "lobby:update"])

Closed(m) == \E i \in 1..Len(m.out) : m.out[i].ev = "room:closed"

----------------------------------------------------------------------------
(* Actions: one per inbound event and per callback *)

M0 == Start(room, pend)

\* a handler that returns at one of its first checks: nothing written, nothing sent
Silent(m) == m.room = room /\ m.pend \subseteq pend /\ m.out = <<>> /\ ~m.touched

\* the effects of a handler or callback; one that does nothing at all leaves
\* the record of the last notifications as it is
Commit(m) ==
    /\ room' = m.room
    /\ pend' = m.pend
    /\ emitted' = IF Silent(m) /\ m.pend = pend THEN emitted ELSE m.out
    /\ touched' = IF Silent(m) /\ m.pend = pend THEN touched ELSE m.touched
NextBot == BotId(botSeq + 1)

\* socket ids are interchangeable: clients connect in the order of their index
InOrder(s) == \A o \in Humans : o[2] < s[2] => sock[o] # "new"

\* player:join (getRoom creates the room on first reference); a bound socket
\* may send player:join again
Join(s) ==
    /\ sock[s] \in {"new", "bound"}
    /\ InOrder(s)
    /\ reg \in {"absent", "live"}
    /\ Commit(handlePlayerJoin(M0, s))
    /\ reg' = "live"
    /\ sock' = [sock EXCEPT ![s] = "bound"]
    /\ UNCHANGED <<now, botSeq>>

\* player:join sent once per socket, before the game
JoinOnce(s) == sock[s] = "new" /\ ~room.gameActive /\ Join(s)

StartsRound(s) == s = room.hostId /\ ~room.gameActive
UsesBot(s) == StartsRound(s) /\ NeedsBot(room)

GameStart(s) ==
    /\ sock[s] = "bound" /\ reg = "live"
    /\ StartsRound(s) => room.round < MaxRound
    /\ UsesBot(s) => botSeq < MaxBots
    /\ \E theme \in Themes : Commit(handleGameStart(M0, s, NextBot, theme))
    /\ botSeq' = IF UsesBot(s) THEN botSeq + 1 ELSE botSeq
    /\ UNCHANGED <<reg, sock, now>>

GameRestart(s) ==
    /\ sock[s] = "bound" /\ reg = "live"
    /\ StartsRound(s) => room.round < MaxRound
    /\ UsesBot(s) => botSeq < MaxBots
    /\ \E theme \in Themes : Commit(handleGameStart(M0, s, NextBot, theme))
    /\ botSeq' = IF UsesBot(s) THEN botSeq + 1 ELSE botSeq
    /\ UNCHANGED <<reg, sock, now>>

GameMenu(s) ==
    /\ sock[s] = "bound" /\ reg = "live"
    /\ Commit(handleGameMenu(M0, s))
    /\ UNCHANGED <<reg, sock, now, botSeq>>

TurnSubmit(s) ==
    /\ sock[s] = "bound" /\ reg = "live"
    /\ \E word \in RawWords : Commit(handleTurnSubmit(M0, s, word, now))
    /\ UNCHANGED <<reg, sock, now, botSeq>>

TurnVote(s) ==
    /\ sock[s] = "bound" /\ reg = "live"
    /\ \E target \in DOMAIN room.submissions \cup DOMAIN room.players :
          Commit(handleTurnVote(M0, s, target))
    /\ UNCHANGED <<reg, sock, now, botSeq>>

DisconnectAddsBot(s) ==
    /\ room.gameActive /\ room.botId = NullId
    /\ Cardinality({id \in DOMAIN room.players :
                       id # s /\ room.players[id].online}) < 2

Disconnect(s) ==
    /\ sock[s] = "bound" /\ reg = "live"
    /\ DisconnectAddsBot(s) => botSeq < MaxBots
    /\ LET m == handleDisconnect(M0, s, NextBot)
       IN  /\ Commit(m)
           /\ reg' = IF Closed(m) THEN "killed" ELSE reg
    /\ botSeq' = IF DisconnectAddsBot(s) THEN botSeq + 1 ELSE botSeq
    /\ sock' = [sock EXCEPT ![s] = "closed"]
    /\ UNCHANGED now

\* faulty variant of sweepKills (only an empty room is destroyed): C17 rejects it
sweepKillsEmpty(r, tooOld, tooIdle) == onlineCount(r) = 0

\* the test of the sweep; tooOld and tooIdle are the two comparisons of the
\* clock with createdAt and lastActivity
sweepKills(r, tooOld, tooIdle) == onlineCount(r) = 0 \/ tooOld \/ tooIdle

\* one iteration of the janitor loop
janitorSweep(m, tooOld, tooIdle) ==
    IF sweepKills(m.room, tooOld, tooIdle)
    THEN killRoom(m, IF tooOld THEN "max_age" ELSE IF tooIdle THEN "idle" ELSE "empty")
    ELSE m

\* the janitor sweep reaches the room, at any time
Janitor ==
    /\ reg = "live"
    /\ \E tooOld \in BOOLEAN, tooIdle \in BOOLEAN :
          LET m == janitorSweep(M0, tooOld, tooIdle)
          IN  /\ Commit(m)
              /\ reg' = IF Closed(m) THEN "killed" ELSE reg
    /\ UNCHANGED <<sock, now, botSeq>>

Elapsed == now - room.turnStartedAt

\* time passes during a turn: from the start of the turn to the instant the
\* bot submission is due; the turn timeout itself is EndTurnTimer
Tick ==
    /\ room.accepting
    /\ Elapsed < botDelay(room.currentTurnDuration)
    /\ now' = room.turnStartedAt + botDelay(room.currentTurnDuration)
    /\ UNCHANGED <<room, reg, sock, pend, botSeq, emitted, touched>>

Fire(cb) == Start(room, pend \ {cb})

WordSetLoaded ==
    /\ \E cb \in pend :
          /\ cb.kind = "wordSetLoaded"
          /\ Commit(startNewRoundResume(Fire(cb), cb.theme))
    /\ UNCHANGED <<reg, sock, now, botSeq>>

NextTurnTimer ==
    /\ StartNextTurnCb \in pend
    /\ \E letters \in SUBSET Alphabet :
          /\ Cardinality(letters) = punishedCount(room.level + 1)
          /\ Commit(startNextTurn(Fire(StartNextTurnCb), letters))
    /\ now' = 1
    /\ UNCHANGED <<reg, sock, botSeq>>

BotSubmitTimer ==
    /\ \E cb \in pend :
          /\ cb.kind = "botSubmit"
          /\ now >= cb.at
          /\ Commit(botSubmitFire(Fire(cb), now))
    /\ UNCHANGED <<reg, sock, now, botSeq>>

\* the turn timeout: time reaches the due time of the timer; timers of one
\* event loop run in the order of their due times
EndTurnTimer ==
    /\ \E cb \in pend :
          /\ cb.kind = "endTurn"
          /\ ~\E b \in pend : b.kind = "botSubmit" /\ b.at <= cb.at
          /\ Commit(endTurn(Fire(cb)))
          /\ now' = Max(now, cb.at)
    /\ UNCHANGED <<reg, sock, botSeq>>

FinalizeTurnTimer ==
    /\ \E cb \in pend :
          /\ cb.kind = "finalizeTurn"
          /\ Commit(finalizeTurn(Fire(cb), cb.eliminated))
    /\ UNCHANGED <<reg, sock, now, botSeq>>

VoteEndTimer ==
    /\ FinalizeVoteCb \in pend
    /\ Commit(finalizeVote(Fire(FinalizeVoteCb)))
    /\ UNCHANGED <<reg, sock, now, botSeq>>

VotePopupTimer ==
    /\ \E cb \in pend :
          /\ cb.kind = "proceedAfterPopup"
          /\ Commit(proceedAfterPopup(Fire(cb), cb.eliminatedByVote))
    /\ UNCHANGED <<reg, sock, now, botSeq>>

GameOverTimer ==
    /\ GameOverCb \in pend
    /\ Commit(gameOverFire(Fire(GameOverCb)))
    /\ UNCHANGED <<reg, sock, now, botSeq>>

----------------------------------------------------------------------------
Init ==
    /\ room = createRoom
    /\ reg = "absent"
    /\ sock = [s \in Humans |-> "new"]
    /\ pend = {}
    /\ now = 1
    /\ botSeq = 0
    /\ emitted = <<>>
    /\ touched = FALSE

Timers ==
    \/ Tick
    \/ WordSetLoaded
    \/ NextTurnTimer
    \/ BotSubmitTimer
    \/ EndTurnTimer
    \/ FinalizeTurnTimer
    \/ VoteEndTimer
    \/ GameOverTimer

\* two client sockets, every inbound event, the janitor
Next ==
    \/ \E s \in Duo : Join(s)
    \/ \E s \in Duo : GameStart(s)
    \/ \E s \in Duo : GameRestart(s)
    \/ \E s \in Duo : GameMenu(s)
    \/ \E s \in Duo : TurnSubmit(s)
    \/ \E s \in Duo : TurnVote(s)
    \/ \E s \in Duo : Disconnect(s)
    \/ Janitor
    \/ Timers

\* with two clients no ballot is left to count at the vote timeout, so the
\* popup delay of finalizeVote is never armed
Spec == Init /\ [][Next]_vars

\* game:start sent while no game is running
GameStartIdle(s) == ~room.gameActive /\ GameStart(s)

\* a client leaves during a game
DisconnectInGame(s) == room.gameActive /\ Disconnect(s)

\* three client sockets that join once each and leave only during a game:
\* the games of three players
NextTrio ==
    \/ \E s \in Humans : JoinOnce(s)
    \/ \E s \in Humans : GameStartIdle(s)
    \/ \E s \in Humans : TurnSubmit(s)
    \/ \E s \in Humans : TurnVote(s)
    \/ \E s \in Humans : DisconnectInGame(s)
    \/ Timers
    \/ VotePopupTimer

SpecTrio == Init /\ [][NextTrio]_vars

----------------------------------------------------------------------------
(* Long games: two players who keep finding new words, up to the level cap *)

\* games one room may start in the specification of long games
MaxLongRound == 2

\* words of two letters, in a fixed order
LongLetters == <<"m", "n", "o", "p", "q", "r", "s">>
LongWordCount == Len(LongLetters) * Len(LongLetters)
LongWord(i) ==
    << LongLetters[((i - 1) \div Len(LongLetters)) + 1],
       LongLetters[((i - 1) % Len(LongLetters)) + 1] >>

\* the words as the handler stores them
LongNormalized == [i \in 1..LongWordCount |-> normalizeWord(LongWord(i))]

\* the i-th word is not used, no one has sent it in this turn, and turn:submit
\* of it by s would be recorded
Fresh(s, i) ==
    /\ LongNormalized[i] \notin room.usedWords
    /\ \A k \in DOMAIN room.submissions : room.submissions[k] # LongNormalized[i]
    /\ handleTurnSubmit(M0, s, LongWord(i), now).room # room

\* the index of the first fresh word from the i-th on, 0 when there is none
RECURSIVE FirstFresh(_, _)
FirstFresh(s, i) ==
    IF i > LongWordCount THEN 0
    ELSE IF Fresh(s, i) THEN i
    ELSE FirstFresh(s, i + 1)

\* turn:submit with the first word that is fresh for the sender (the words are
\* interchangeable: the handler only compares them)
SubmitFresh(s) ==
    /\ sock[s] = "bound" /\ reg = "live"
    /\ room.accepting
    /\ LET i == FirstFresh(s, 1)
       IN  i # 0 /\ Commit(handleTurnSubmit(M0, s, LongWord(i), now))
    /\ UNCHANGED <<reg, sock, now, botSeq>>

\* game:start sent while no game is running and both clients are in the room
GameStartLong(s) ==
    /\ sock[s] = "bound" /\ reg = "live"
    /\ ~room.gameActive /\ humanOnline(room) = 2
    /\ room.round < MaxLongRound
    /\ \E theme \in Themes : Commit(handleGameStart(M0, s, NextBot, theme))
    /\ UNCHANGED <<reg, sock, now, botSeq>>

NextLong ==
    \/ \E s \in Duo : JoinOnce(s)
    \/ \E s \in Duo : GameStartLong(s)
    \/ \E s \in Duo : SubmitFresh(s)
    \/ WordSetLoaded
    \/ NextTurnTimer
    \/ EndTurnTimer
    \/ FinalizeTurnTimer
    \/ VoteEndTimer
    \/ GameOverTimer

SpecLong == Init /\ [][NextLong]_vars

----------------------------------------------------------------------------
(* Long games with clients that also send words the handler rejects *)

\* the words of the rejected submissions: the short words and the first of the
\* two-letter words
RejectWords == RawWords \cup {LongWord(1)}

\* turn:submit of a word that is rejected
SubmitRejected(s) ==
    /\ sock[s] = "bound" /\ reg = "live"
    /\ \E word \in RejectWords :
          LET m == handleTurnSubmit(M0, s, word, now)
          IN  m.out # <<>> /\ m.room = room /\ Commit(m)
    /\ UNCHANGED <<reg, sock, now, botSeq>>

NextReject ==
    \/ NextLong
    \/ \E s \in Duo : SubmitRejected(s)

SpecReject == Init /\ [][NextReject]_vars

----------------------------------------------------------------------------
(* Timers fire: a callback that is due runs eventually, and time passes *)

\* the two-client specification with timers that fire
SpecLive == Spec /\ WF_vars(Timers)

LongTimers ==
    \/ WordSetLoaded
    \/ NextTurnTimer
    \/ EndTurnTimer
    \/ FinalizeTurnTimer
    \/ VoteEndTimer
    \/ GameOverTimer

\* the long games with timers that fire
SpecLongLive == SpecLong /\ WF_vars(LongTimers)

----------------------------------------------------------------------------
(* One timed turn: two players who submit at chosen instants of the turn *)

\* games and turns of the specification of timed turns
MaxClockRound == 1
MaxClockTurn == 1

\* the instants a submission is observed at: the tenths of the turn and the
\* millisecond before each, from the start of the turn to its timeout
ClockInstants(r) ==
    {t \in {r.turnStartedAt + ((k * r.currentTurnDuration) \div 10) - d :
               k \in 0..10, d \in {0, 1}} : t >= r.turnStartedAt}

\* time passes during a turn, up to the due time of the turn timeout
ClockTick ==
    /\ room.accepting
    /\ \E t \in ClockInstants(room) : t > now /\ now' = t
    /\ UNCHANGED <<room, reg, sock, pend, botSeq, emitted, touched>>

GameStartClock(s) ==
    /\ sock[s] = "bound" /\ reg = "live"
    /\ ~room.gameActive /\ humanOnline(room) = 2
    /\ room.round < MaxClockRound
    /\ \E theme \in Themes : Commit(handleGameStart(M0, s, NextBot, theme))
    /\ UNCHANGED <<reg, sock, now, botSeq>>

NextTurnClock == room.turn < MaxClockTurn /\ NextTurnTimer

NextClock ==
    \/ \E s \in Duo : JoinOnce(s)
    \/ \E s \in Duo : GameStartClock(s)
    \/ \E s \in Duo : SubmitFresh(s)
    \/ ClockTick
    \/ WordSetLoaded
    \/ NextTurnClock
    \/ EndTurnTimer
    \/ FinalizeTurnTimer
    \/ VoteEndTimer
    \/ GameOverTimer

SpecClock == Init /\ [][NextClock]_vars

----------------------------------------------------------------------------
(* Properties *)

HasEv(out, name) == \E i \in 1..Len(out) : out[i].ev = name
EvOf(out, name) == out[CHOOSE i \in 1..Len(out) : out[i].ev = name]
Ballots(r, t) == IF Has(r.votes, t) THEN r.votes[t] ELSE {}

\* the step runs the callback of this kind (it was pending and is consumed while
\* the room stays as it is in the registry)
Runs(kind) == reg' = reg /\ \E cb \in pend \ pend' : cb.kind = kind

\* the step is the game-over callback: it was pending and round:end is sent
GameOverRuns ==
    /\ GameOverCb \in pend /\ GameOverCb \notin pend'
    /\ room.gameActive /\ ~room'.gameActive
    /\ HasEv(emitted', "round:end")

\* C1 (as the specification states it): once killRoom has destroyed the room,
\* no callback scheduled for it runs: nothing is taken from or added to the
\* pending callbacks and the room object is not written.
C1_NoCallbackAfterKill ==
    [][reg = "killed" => (room' = room /\ pend' = pend)]_vars

\* C2 (as the specification states it): when the game-over callback runs with
\* exactly one player alive and the level below 20, the winner of round:end is
\* that survivor.
C2_SurvivorWins ==
    [][GameOverRuns =>
          LET alive == aliveIds(room)
          IN  (Len(alive) = 1 /\ room.level < 20)
                 => EvOf(emitted', "round:end").winner = alive[1]]_vars

\* C3: a target is disqualified by vote (early exit in the vote handler, or
\* decided at the vote timeout and applied after the popup) only with at least
\* floor(n / 2) + 1 ballots against it, n the alive players other than the target.
C3_VoteNeedsMajority ==
    [][\A t \in DOMAIN room.players :
          LET n == Cardinality(AliveSet(room) \ {t})
              announced == /\ room' # room
                           /\ HasEv(emitted', "vote:eliminated")
                           /\ t \in EvOf(emitted', "vote:eliminated").ids
              applied == /\ \E cb \in pend \ pend' :
                               cb.kind = "proceedAfterPopup" /\ t \in cb.eliminatedByVote
                         /\ IsAlive(room, t) /\ ~IsAlive(room', t)
          IN  /\ announced =>
                   Cardinality(Ballots(room, t) \cup Ballots(room', t)) >= (n \div 2) + 1
              /\ applied => Cardinality(Ballots(room, t)) >= (n \div 2) + 1]_vars

\* C3 witness: the vote timeout has decided a disqualification that waits for
\* the end of the popup.
C3_Witness ==
    /\ HasEv(emitted, "vote:eliminated")
    /\ \E cb \in pend :
          /\ cb.kind = "proceedAfterPopup"
          /\ \E t \in cb.eliminatedByVote : IsAlive(room, t) /\ Ballots(room, t) # {}

\* C4: a submission recorded during a turn (of a client or of the bot) is never
\* a word of usedWords; the word of a player disqualified by vote has left
\* usedWords by then.
C4_UsedWordNotAccepted ==
    [][\A k \in DOMAIN room'.submissions :
          (/\ room.accepting /\ room'.accepting
           /\ room'.turn = room.turn /\ room'.round = room.round
           /\ ~Has(room.submissions, k))
             => room'.submissions[k] \notin room.usedWords]_vars

\* C4 witness: a word has just been accepted in a turn that has used words.
C4_Witness ==
    /\ room.accepting /\ room.usedWords # {}
    /\ HasEv(emitted, "turn:ack")
    /\ \E k \in DOMAIN room.submissions : room.submissions[k] \notin room.usedWords

\* C5 (as the specification states it): while a turn accepts submissions there
\* are at most as many submissions as alive players.
C5_SubmissionsWithinAlive ==
    room.accepting =>
        Cardinality(DOMAIN room.submissions) <= Cardinality(AliveSet(room))

\* C6: level grows by exactly 1 when a turn starts and only then, falls only to
\* 0 and only when game:start / game:restart starts a game, never exceeds 20,
\* and no turn starts once level has reached 20.
C6_LevelSteps ==
    [][/\ room'.level \in {room.level, room.level + 1, 0}
       /\ room'.level <= 20
       /\ (room'.turn = room.turn + 1) <=> (room'.level = room.level + 1)
       /\ (room'.turn = room.turn + 1) => (room.level < 20 /\ room'.accepting)
       /\ (room'.level < room.level) =>
             (~room.gameActive /\ room'.gameActive /\ room'.round = room.round + 1)]_vars

\* C6 witness: the game is over because the twentieth turn was played, with
\* both players still alive.
C6_Witness ==
    /\ room.level = 20 /\ GameOverCb \in pend
    /\ Cardinality(AliveSet(room)) = 2

\* C7: accepting and votingActive are never both true, and the turn timeout
\* and the vote timeout are never pending together.
C7_TurnAndVoteExclusive ==
    /\ ~(room.accepting /\ room.votingActive)
    /\ ~\E a \in pend, b \in pend : a.kind = "endTurn" /\ b.kind = "finalizeVote"

\* C7 witness: a vote is open after a turn, its timeout pending.
C7_Witness ==
    /\ room.votingActive /\ ~room.accepting
    /\ FinalizeVoteCb \in pend
    /\ room.turn = 2

\* C8: at the turn timeout a player who was alive stays alive iff they have a
\* submission whose word no other submission of the turn carries.
C8_TurnResolution ==
    [][(Runs("endTurn") /\ room.accepting /\ ~room'.accepting) =>
          \A p \in AliveSet(room) :
              IsAlive(room', p) <=>
                  /\ Has(room.submissions, p)
                  /\ \A q \in DOMAIN room.submissions \ {p} :
                        room.submissions[q] # room.submissions[p]]_vars

\* C8 witness: the turn timeout has disqualified players for a duplicate word
\* and left another player alive.
C8_Witness ==
    /\ HasEv(emitted, "elim:popup")
    /\ \E cb \in pend : cb.kind = "finalizeTurn"
    /\ \E p \in DOMAIN room.submissions, q \in DOMAIN room.submissions :
          p # q /\ room.submissions[p] = room.submissions[q] /\ ~IsAlive(room, p)
    /\ AliveSet(room) # {}

\* C9 (as the specification states it): when the game ends after a turn in
\* which nobody submitted, round:end and game:end carry no winner and no score
\* changes.
C9_NoSubmissionNoWinner ==
    [][(GameOverRuns /\ DOMAIN room.submissions = {}) =>
          /\ EvOf(emitted', "round:end").winner = NullId
          /\ EvOf(emitted', "game:end").winner = NullId
          /\ \A id \in DOMAIN room.players :
                room'.players[id].score = room.players[id].score]_vars

\* C10: a ballot that brings the ballots against a target to floor(n / 2) + 1
\* disqualifies the target in the same step, before the vote timeout: the target
\* is not alive, its word has left usedWords, vote:eliminated is sent and the
\* vote timeout is still pending.  With three alive players the first ballot
\* does not do it and the second does.
C10_EarlyExit ==
    [][\A t \in DOMAIN room.players :
          LET n == Cardinality(AliveSet(room) \ {t})
              cast == /\ room.votingActive
                      /\ Ballots(room', t) # Ballots(room, t)
                      /\ Ballots(room, t) \subseteq Ballots(room', t)
              count == Cardinality(Ballots(room', t))
          IN  cast =>
                /\ count >= (n \div 2) + 1 =>
                      /\ ~IsAlive(room', t)
                      /\ room.submissions[t] \notin room'.usedWords
                      /\ HasEv(emitted', "vote:eliminated")
                      /\ EvOf(emitted', "vote:eliminated").ids = {t}
                      /\ room'.votingActive /\ FinalizeVoteCb \in pend'
                /\ count < (n \div 2) + 1 => IsAlive(room', t)
                /\ Cardinality(AliveSet(room)) = 3 => (~IsAlive(room', t) <=> count = 2)]_vars

\* C10 witness: three players were credited in the first turn (three distinct
\* words), one word has left usedWords by a vote, and in the second turn a
\* player has submitted it again (the two other words are still used).
C10_Witness ==
    /\ room.turn = 2 /\ room.accepting
    /\ \A s \in Humans : Has(room.players, s) /\ room.players[s].score > 0
    /\ Cardinality(room.usedWords) = 2
    /\ DOMAIN room.submissions # {}

\* C11: a step in which game:start / game:restart starts a round ends with at
\* least two online roster players; when fewer than two humans were online the
\* bot is in the roster, online, by then; and the check of the online count
\* never rejects a start while the roster has no bot.
C11_TwoOnlineAtStart ==
    [][/\ (room'.round = room.round + 1) =>
             /\ Cardinality({id \in DOMAIN room'.players :
                                room'.players[id].online}) >= 2
             /\ humanOnline(room) < 2 =>
                   /\ room'.botId # NullId
                   /\ Has(room'.players, room'.botId)
                   /\ room'.players[room'.botId].online
       /\ (/\ ~room.gameActive /\ reg' = reg
           /\ emitted' # emitted /\ HasEv(emitted', "game:error")) =>
             room'.botId # NullId]_vars

\* C11 witness: the host, alone online, has started a round and the bot is the
\* second online player.
C11_Witness ==
    /\ room.round = 1 /\ room.gameActive
    /\ \E cb \in pend : cb.kind = "wordSetLoaded"
    /\ humanOnline(room) = 1
    /\ room.botId # NullId /\ onlineCount(room) = 2

\* C12: game:start / game:restart of a sender who is not the host, or sent
\* while a game is active, starts no round and leaves the room (round, level,
\* active flag, roster, bot) and the pending callbacks as they are; what it
\* sends is nothing, except that the host of an active game gets one game:error
\* with the generic message.  No step starts a round while a game is active.
C12_RejectedStart ==
    [][/\ (room'.round = room.round + 1) => ~room.gameActive
       /\ reg = "live" =>
             \A s \in Humans, theme \in Themes :
                 LET m == handleGameStart(M0, s, NextBot, theme)
                 IN  (s # room.hostId \/ room.gameActive) =>
                        /\ m.room = room /\ m.pend = pend /\ ~m.touched
                        /\ m.out = IF s = room.hostId
                                   THEN << [ev |-> "game:error", to |-> s,
                                            message |-> "Problème de création du Lobby, Demande à Kiddy"] >>
                                   ELSE << >>]_vars

\* C12 witness: the host of an active game (second turn) has just been sent
\* the error for a start, and another player is in the roster.
C12_Witness ==
    /\ room.gameActive /\ room.turn = 2
    /\ emitted = << [ev |-> "game:error", to |-> room.hostId, message |-> GenericError] >>
    /\ \E s \in Humans : Has(room.players, s) /\ s # room.hostId

\* C13: when a turn is finalized every submitter who was not disqualified gets
\* clamp(10 - floor(10 * elapsed / duration), 1, 10) points, elapsed being the
\* submission instant minus the start of the turn; the points are between 1
\* and 10, and of two credited submitters the later one never gets more.
C13_SpeedPoints ==
    [][(~room.votingActive /\ room'.votingActive /\ reg' = reg) =>
             LET eliminated == UNION {cb.eliminated :
                                   cb \in {c \in pend \ pend' : c.kind = "finalizeTurn"}}
                 credited == {sid \in DOMAIN room.submissions \ eliminated :
                                 Has(room.players, sid)}
                 elapsed(sid) == room.submissionTimes[sid] - room.turnStartedAt
                 raw(sid) == 10 - ((10 * elapsed(sid)) \div room.currentTurnDuration)
                 pts(sid) == room'.players[sid].score - room.players[sid].score
             IN  /\ \A sid \in credited :
                       /\ pts(sid) = IF raw(sid) < 1 THEN 1
                                     ELSE IF raw(sid) > 10 THEN 10 ELSE raw(sid)
                       /\ pts(sid) \in 1..10
                 /\ \A a \in credited, b \in credited :
                       elapsed(a) <= elapsed(b) => pts(a) >= pts(b)]_vars

\* C13 witness: a turn has been finalized in which one player submitted in the
\* first tenth of the turn and got 10 points and the other submitted at the
\* instant of the timeout and got 1 point.
C13_Witness ==
    /\ room.votingActive
    /\ \E a \in DOMAIN room.submissionTimes, b \in DOMAIN room.submissionTimes :
          /\ room.submissionTimes[a] - room.turnStartedAt < room.currentTurnDuration \div 10
          /\ room.submissionTimes[b] - room.turnStartedAt = room.currentTurnDuration
          /\ room.players[a].score = 10 /\ room.players[b].score = 1

\* C14: usedWords is emptied when a round starts or ends; the finalization of a
\* turn adds exactly the words whose submitter was not disqualified as a
\* duplicate; no other step adds a word, and a word leaves usedWords only in a
\* step that disqualifies by vote the player who submitted it in the current
\* turn; during a vote no word of usedWords has two submitters in the turn.
C14_UsedWords ==
    [][LET subs == room.submissions
           unique(k) == \A q \in DOMAIN subs \ {k} : subs[q] # subs[k]
           finalized == ~room.votingActive /\ room'.votingActive
           cleared == \/ room'.round = room.round + 1
                      \/ room.gameActive /\ ~room'.gameActive
           votedOut(t) ==
               \/ /\ room.votingActive
                  /\ IsAlive(room, t) /\ ~IsAlive(room', t)
                  /\ Ballots(room', t) # Ballots(room, t)
               \/ \E cb \in pend \ pend' :
                     cb.kind = "proceedAfterPopup" /\ t \in cb.eliminatedByVote
       IN  /\ cleared => room'.usedWords = {}
           /\ (finalized /\ ~cleared) =>
                 room'.usedWords =
                     room.usedWords \cup {subs[k] : k \in {q \in DOMAIN subs : unique(q)}}
           /\ (~finalized /\ ~cleared) =>
                 /\ room'.usedWords \subseteq room.usedWords
                 /\ \A w \in room.usedWords \ room'.usedWords :
                       \E t \in DOMAIN subs : subs[t] = w /\ votedOut(t)
           /\ room.votingActive =>
                 \A k \in DOMAIN subs : subs[k] \in room.usedWords => unique(k)]_vars

\* C14 witness: during a vote one of three submitters has been disqualified by
\* vote and that player's word has left usedWords, while the words of the two
\* other submitters are used.
C14_Witness ==
    /\ room.votingActive
    /\ Cardinality(DOMAIN room.submissions) = 3
    /\ \E t \in DOMAIN room.submissions :
          /\ ~IsAlive(room, t) /\ Ballots(room, t) # {}
          /\ room.submissions[t] \notin room.usedWords
          /\ room.usedWords = {room.submissions[k] : k \in DOMAIN room.submissions \ {t}}
    /\ Cardinality(room.usedWords) = 2

\* C15 (as the specification states it): during a game no step lowers the
\* score of a player of the roster.
C15_ScoreNeverFalls ==
    [][room.gameActive =>
          \A id \in DOMAIN room.players \cap DOMAIN room'.players :
              room'.players[id].score >= room.players[id].score]_vars

\* C16: while the room is in the registry, a game that is active is eventually
\* over (the active flag is false again); no round has more than 20 turns and
\* the level never exceeds 20.
C16_GameEnds ==
    /\ [](room.turn <= 20 /\ room.level <= 20)
    /\ (room.gameActive /\ reg = "live") ~> (~room.gameActive \/ reg # "live")

\* C16 witness: a game of 20 turns has ended and the room, still in the
\* registry, is back in the lobby.
C16_Witness ==
    /\ reg = "live" /\ ~room.gameActive
    /\ room.round >= 1 /\ room.level = 20
    /\ HasEv(emitted, "game:end")

C18_SameRejection ==
    [][/\ (reg = "live" /\ room.accepting) =>
             \A s \in Duo, word \in RejectWords :
                 LET n == normalizeWord(word)
                     used == n \in room.usedWords
                     outOfBank == Len(room.wordSet) > 0 /\ n \notin Range(room.wordSet)
                     punished == \E l \in room.punishedLetters : l \in Range(n)
                     m == handleTurnSubmit(M0, s, word, now)
                 IN  (IsAlive(room, s) /\ n # <<>> /\ (used \/ outOfBank \/ punished)) =>
                        /\ m.out = << [ev |-> "turn:error", to |-> s,
                                       message |-> "Mot invalide! Relis les règles!"] >>
                        /\ m.room = room /\ m.pend = pend /\ ~m.touched
       /\ (emitted' # emitted /\ HasEv(emitted', "turn:error")) =>
             /\ room' = room /\ pend' = pend
             /\ Len(emitted') = 1
             /\ emitted'[1].message = "Mot invalide! Relis les règles!"]_vars

\* C18 witness: a submitter has just been sent turn:error in a turn with a
\* punished letter, in which one word would be rejected only for its punished
\* letter and another only for being used.
C18_Witness ==
    /\ room.accepting /\ room.level >= 10
    /\ Len(emitted) = 1 /\ emitted[1].ev = "turn:error"
    /\ \E w \in RejectWords, u \in RejectWords :
          /\ normalizeWord(w) \notin room.usedWords
          /\ \E l \in room.punishedLetters : l \in Range(normalizeWord(w))
          /\ normalizeWord(u) \in room.usedWords
          /\ ~\E l \in room.punishedLetters : l \in Range(normalizeWord(u))

\* C19 (as the specification states it): a turn at level 1 lasts 10 s, a turn
\* at level 10 lasts 8 s and a turn at level 5 lasts 9 s.
C19_AsStated ==
    room.accepting =>
        /\ room.level = 1 => room.currentTurnDuration = 10000
        /\ room.level = 10 => room.currentTurnDuration = 8000
        /\ room.level = 5 => room.currentTurnDuration = 9000

\* C19 (amended): a turn at level 1 lasts 10000 ms, a turn at level 10 lasts
\* 8000 ms and a turn at level 5 lasts 9111 ms; from level 1 to level 10 the
\* duration is 10 s less 2/9 s per level above 1, rounded to the millisecond,
\* and the turn timeout is due that long after the start of the turn.
C19_TurnDurations ==
    room.accepting =>
        /\ room.level = 1 => room.currentTurnDuration = 10000
        /\ room.level = 10 => room.currentTurnDuration = 8000
        /\ room.level = 5 => room.currentTurnDuration = 9111
        /\ room.level \in 1..10 =>
              room.currentTurnDuration =
                  (2 * (90000 - 2000 * (room.level - 1)) + 9) \div 18
        /\ \E cb \in pend :
              /\ cb.kind = "endTurn"
              /\ cb.at = room.turnStartedAt + room.currentTurnDuration

\* C19 witness: the fifth turn of a game is open, both players alive, and it
\* lasts 9111 ms.
C19_Witness ==
    /\ room.accepting /\ room.level = 5 /\ room.turn = 5
    /\ room.currentTurnDuration = 9111
    /\ Cardinality(AliveSet(room)) = 2

\* C20: a ballot enters votes[t] only in a step taken while the vote is open,
\* for a voter who is alive and is not t, against a target t who is alive and
\* has a submission in the current turn; no ballot set holds its own target,
\* and ballots exist only for submitters of the turn; turn:vote that is sent
\* outside a vote, by a voter who is not alive, against a target who is not
\* alive, is the voter or has no submission, or a second time against the same
\* target, changes nothing of the room (votes, alive flags, usedWords) and
\* sends nothing.
C20_ValidBallots ==
    [][/\ \A t \in DOMAIN room'.votes :
             \A v \in room'.votes[t] \ Ballots(room, t) :
                 /\ room.votingActive
                 /\ v # t
                 /\ IsAlive(room, v) /\ IsAlive(room, t)
                 /\ Has(room.submissions, t)
       /\ \A t \in DOMAIN room.votes :
             t \notin room.votes[t] /\ (room.votes[t] # {} => Has(room.submissions, t))
       /\ reg = "live" =>
             \A s \in Humans, t \in DOMAIN room.players \cup DOMAIN room.submissions :
                 LET m == handleTurnVote(M0, s, t)
                     valid == /\ room.votingActive
                              /\ IsAlive(room, s) /\ IsAlive(room, t)
                              /\ s # t
                              /\ Has(room.submissions, t)
                              /\ s \notin Ballots(room, t)
                 IN  /\ ~valid => (m.room = room /\ m.out = <<>> /\ m.pend = pend)
                     /\ valid => s \in Ballots(m.room, t)]_vars

\* C20 witness: a vote is open with three alive players, one ballot is
\* recorded against one of them, who is still alive.
C20_Witness ==
    /\ room.votingActive /\ touched
    /\ Cardinality(AliveSet(room)) = 3
    /\ \E t \in DOMAIN room.votes :
          Cardinality(room.votes[t]) = 1 /\ IsAlive(room, t)

\* C21: turn:submit received while the room does not accept submissions,
\* turn:vote received while no vote is open, and the bot submission callback
\* run after the turn has ended change nothing of the room, schedule nothing
\* and send nothing; outside a turn the submissions change only by being
\* emptied, and outside a vote the ballots change only by being emptied.
C21_LateEventsSilent ==
    [][/\ (reg = "live" /\ ~room.accepting) =>
             /\ \A s \in Duo, word \in RawWords :
                   handleTurnSubmit(M0, s, word, now) = M0
             /\ botSubmitFire(M0, now) = M0
       /\ (reg = "live" /\ ~room.votingActive) =>
             \A s \in Duo, t \in DOMAIN room.players \cup DOMAIN room.submissions :
                 handleTurnVote(M0, s, t) = M0
       /\ (~room.accepting /\ ~room'.accepting /\ room'.submissions # room.submissions) =>
             room'.submissions = <<>>
       /\ (~room.votingActive /\ ~room'.votingActive /\ room'.votes # room.votes) =>
             room'.votes = <<>>]_vars

\* C21 witness: a vote is open after a turn of the bot and a client; the
\* client is alive and has no submission, the word set still has a word for
\* the bot, and the turn no longer accepts submissions.
C21_Witness ==
    /\ ~room.accepting /\ room.votingActive /\ reg = "live"
    /\ room.botId # NullId /\ Has(room.players, room.botId)
    /\ \E w \in Range(room.wordSet) : w \notin room.usedWords
    /\ \E s \in Duo : sock[s] = "bound" /\ Has(room.players, s)

\* C22: as long as the turn and the round stay the same, a recorded submission
\* keeps its word and its instant; turn:submit of a player who has a submission
\* in the turn leaves submissions and submissionTimes as they are, whatever
\* the word and the instant.
C22_OneSubmission ==
    [][/\ (room'.turn = room.turn /\ room'.round = room.round) =>
             \A k \in DOMAIN room.submissions :
                 /\ Has(room'.submissions, k)
                 /\ room'.submissions[k] = room.submissions[k]
                 /\ Has(room.submissionTimes, k) =>
                       /\ Has(room'.submissionTimes, k)
                       /\ room'.submissionTimes[k] = room.submissionTimes[k]
       /\ reg = "live" =>
             \A s \in DOMAIN room.submissions, word \in RawWords :
                 LET m == handleTurnSubmit(M0, s, word, now)
                 IN  /\ m.room.submissions = room.submissions
                     /\ m.room.submissionTimes = room.submissionTimes]_vars

\* C22 witness: half of the turn has passed since a player, still alive,
\* submitted at the start of the turn, and a word that is neither used nor
\* submitted is left to send.
C22_Witness ==
    /\ room.accepting /\ reg = "live"
    /\ \E s \in Duo :
          /\ sock[s] = "bound" /\ IsAlive(room, s)
          /\ Has(room.submissions, s)
          /\ room.submissionTimes[s] < now
          /\ \E word \in RawWords :
                /\ normalizeWord(word) # <<>>
                /\ normalizeWord(word) # room.submissions[s]
                /\ HasEv(handleTurnSubmit([M0 EXCEPT !.room.submissions = <<>>],
                                          s, word, now).out, "turn:ack")

\* C23 (as the specification states it): hostId is null or the id of a player
\* who is in the roster and online.
C23_HostOnline ==
    \/ room.hostId = NullId
    \/ Has(room.players, room.hostId) /\ room.players[room.hostId].online

\* C24 (as the specification states it): at the vote timeout a target is
\* disqualified only with as many ballots as the majority of the players who
\* were alive when the turn was resolved, the target excluded.  The players
\* alive at the vote timeout, the voters of the vote and the targets of its
\* ballots were all alive then, so the ballots needed are at least the
\* majority of these.
C24_SnapshotThreshold ==
    [][(Runs("finalizeVote") /\ room.votingActive) =>
          LET known == AliveSet(room)
                       \cup UNION {room.votes[t] : t \in DOMAIN room.votes}
                       \cup {t \in DOMAIN room.votes : room.votes[t] # {}}
              out == IF HasEv(emitted', "vote:eliminated")
                     THEN EvOf(emitted', "vote:eliminated").ids ELSE {}
          IN  \A t \in out :
                  Cardinality(room.votes[t]) >= (Cardinality(known \ {t}) \div 2) + 1]_vars

----------------------------------------------------------------------------
\* the callbacks that setTimeout schedules (the word bank load is an await)
TimerKinds ==
    {"startNextTurn", "endTurn", "finalizeTurn", "finalizeVote",
     "proceedAfterPopup", "gameOver", "botSubmit"}

\* C25: whenever a step arms a timer, no timer armed before that step is still
\* pending (each has fired or was cancelled), and at most one timer of each
\* name is pending at any time.
C25_TimersSupersede ==
    [][/\ \A k \in TimerKinds : Cardinality({cb \in pend' : cb.kind = k}) <= 1
       /\ (\E cb \in pend' \ pend : cb.kind \in TimerKinds) => pend' \cap pend = {}]_vars

\* the vote timeout is the only pending timer, armed after the turn timeout
\* and the bot submission timer of the turn have both run
C25_Witness ==
    /\ room.votingActive
    /\ pend = {FinalizeVoteCb}
    /\ room.timers.endTurn.kind = "endTurn"
    /\ room.timers.botSubmit.kind = "botSubmit"

----------------------------------------------------------------------------
\* C26: within one voting phase every disqualification-by-vote notification
\* names only players who were still alive just before it, an early exit
\* leaves its target not alive, and nobody comes back to life while the vote is
\* open: a target that left through the early exit is not disqualified or
\* notified again by the pass at the vote timeout.
C26_DisqualifiedOnce ==
    [][room.votingActive =>
          /\ \A id \in DOMAIN room'.players :
                room'.players[id].alive => id \in AliveSet(room)
          /\ (room' # room /\ HasEv(emitted', "vote:eliminated")) =>
                \A t \in EvOf(emitted', "vote:eliminated").ids :
                    /\ t \in AliveSet(room)
                    /\ room'.votingActive => t \notin AliveSet(room')]_vars

\* the vote timeout has disqualified one player while the ballots of a target
\* that left through the early exit are still on record
C26_Witness ==
    /\ ~room.votingActive
    /\ HasEv(emitted, "vote:eliminated")
    /\ \E cb \in pend : cb.kind = "proceedAfterPopup"
                        /\ cb.eliminatedByVote = EvOf(emitted, "vote:eliminated").ids
    /\ \E t \in DOMAIN room.votes :
          /\ Cardinality(room.votes[t]) >= 2
          /\ ~room.players[t].alive
          /\ room.players[t].online
          /\ t \notin EvOf(emitted, "vote:eliminated").ids

----------------------------------------------------------------------------
\* C27: the end of a round adds 3 to the score of the winner, if there is one,
\* and 1 to the score of every player alive at that moment (a winner who is
\* alive gets both), changes no other score, and leaves the game inactive,
\* no submissions, no theme, turn 0, no used words and every player not alive.
C27_RoundEnd ==
    [][((Runs("startNextTurn") \/ Runs("gameOver")) /\ HasEv(emitted', "round:end")) =>
          LET w == EvOf(emitted', "round:end").winner
          IN  /\ DOMAIN room'.players = DOMAIN room.players
              /\ \A id \in DOMAIN room.players :
                    /\ room'.players[id].score =
                          room.players[id].score
                          + (IF id = w THEN 3 ELSE 0)
                          + (IF room.players[id].alive THEN 1 ELSE 0)
                    /\ ~room'.players[id].alive
              /\ ~room'.gameActive
              /\ room'.submissions = <<>>
              /\ room'.theme = NoTheme
              /\ room'.turn = 0
              /\ room'.usedWords = {}]_vars

\* a round has ended with a winner who was alive (3 + 1 points) next to a
\* player who was not; nothing has happened in the room since
C27_Witness ==
    /\ HasEv(emitted, "round:end")
    /\ HasEv(emitted, "game:end")
    /\ ~room.gameActive
    /\ room.turn = 0
    /\ LET w == EvOf(emitted, "round:end").winner
       IN  /\ w \in DOMAIN room.players
           /\ room.players[w].score = 4
           /\ \E id \in DOMAIN room.players : id # w /\ room.players[id].score = 0

----------------------------------------------------------------------------
\* C28 (as the specification states it): when the next turn is due in an
\* active game whose roster holds a bot next to a human who is alive, the bot
\* takes part: the turn starts instead of the round ending, the bot is alive
\* and its submission timer is pending.  A bot is not alive there only when a
\* disconnect injected it after the round began: a bot disqualified during the
\* round leaves at most one player alive, and then the game-over timer is
\* armed, not the next turn.
C28_InjectedBotPlays ==
    [][(/\ Runs("startNextTurn")
        /\ room.gameActive
        /\ room.botId # NullId
        /\ \E h \in Humans : IsAlive(room, h)) =>
          /\ ~HasEv(emitted', "round:end")
          /\ room'.accepting
          /\ IsAlive(room', room.botId)
          /\ \E cb \in pend' : cb.kind = "botSubmit"]_vars

----------------------------------------------------------------------------
\* C29: after a join that leaves two or more humans online in a room that held
\* a bot, the bot is out of the roster and botId is null; the roster never
\* holds more than one bot.
C29_BotLeaves ==
    [][/\ Cardinality(DOMAIN room'.players \cap BotIds) <= 1
       /\ (/\ HasEv(emitted', "ack")
           /\ emitted' # emitted \/ room' # room
           /\ room.botId # NullId
           /\ Cardinality({h \in Humans : /\ h \in DOMAIN room'.players
                                          /\ room'.players[h].online}) >= 2) =>
              /\ room'.botId = NullId
              /\ DOMAIN room'.players \cap BotIds = {}
              /\ \A i \in 1..Len(room'.order) : room'.order[i] \notin BotIds]_vars

\* a second human has joined during a turn in which the bot was playing: the
\* bot is gone while its submission timer is still pending
C29_Witness ==
    /\ HasEv(emitted, "ack")
    /\ room.gameActive
    /\ room.botId = NullId
    /\ DOMAIN room.players \cap BotIds = {}
    /\ \E cb \in pend : cb.kind = "botSubmit"
    /\ Cardinality({h \in Humans : /\ h \in DOMAIN room.players
                                   /\ room.players[h].online}) >= 2

----------------------------------------------------------------------------
(* The bot's word choice on its own: a turn of one human against the bot,  *)
(* with the word set, the used words, the punished letters and the human's *)
(* submission drawn from small sets.                                       *)

PickWordSet == { <<"a">>, <<"b", "e">>, <<"e", "z">> }

\* word sets: the words of a bank in any iteration order, none twice
PickBanks ==
    {ws \in UNION {[1..n -> PickWordSet] : n \in 0..Cardinality(PickWordSet)} :
        \A i, j \in 1..Len(ws) : ws[i] = ws[j] => i = j}

\* the first turn, and turns with one and with two punished letters
PickLevels == {1, 10, 13}

\* the room when turn `level` is due: the host alone has joined and started the
\* game, the bot was added and revived with the round
PickRoom(ws, used, level) ==
    LET host == Id("sock", 1)
        joined == handlePlayerJoin(Start(createRoom, {}), host)
        started == handleGameStart(Start(joined.room, {}), host, BotId(1), "Couleurs")
        resumed == startNewRoundResume(Start(started.room, {}), "Couleurs")
    IN  [resumed.room EXCEPT !.wordSet = ws, !.usedWords = used,
                           !.level = level - 1, !.turn = level - 1]

\* the turn has started and the human has sent a word (or nothing yet)
InitPick ==
    \E ws \in PickBanks, used \in SUBSET PickWordSet, level \in PickLevels,
       letters \in SUBSET Alphabet, word \in PickWordSet \cup {<<>>} :
        /\ level = 1 => used = {}
        /\ Cardinality(letters) = punishedCount(level)
        /\ LET turn == startNextTurn(Start(PickRoom(ws, used, level), {}), letters)
               sent == handleTurnSubmit(Start(turn.room, turn.pend), Id("sock", 1), word, 1)
           IN  /\ room = sent.room
               /\ pend = sent.pend
               /\ emitted = IF sent.out = <<>> THEN turn.out ELSE sent.out
               /\ touched = TRUE
        /\ reg = "live"
        /\ sock = [s \in Humans |-> IF s = Id("sock", 1) THEN "bound" ELSE "new"]
        /\ now = 1
        /\ botSeq = 1

NextPick ==
    \/ Tick
    \/ BotSubmitTimer

SpecPick == InitPick /\ [][NextPick]_vars

\* C30: when the bot's timer records a submission, the word is the first word
\* of the word set, in iteration order, that is not a used word, is not the
\* submission of any player in this turn and contains no punished letter; when
\* the word set holds no such word (an empty word set included) the timer
\* records nothing.
C30_BotWord ==
    [][Runs("botSubmit") =>
          LET eligible(w) ==
                  /\ w \notin room.usedWords
                  /\ \A k \in DOMAIN room.submissions : room.submissions[k] # w
                  /\ \A l \in room.punishedLetters : l \notin Range(w)
              idx == {i \in 1..Len(room.wordSet) : eligible(room.wordSet[i])}
              first == CHOOSE i \in idx : \A j \in idx : i <= j
          IN  /\ idx = {} => room'.submissions = room.submissions
              /\ room'.submissions # room.submissions =>
                    /\ idx # {}
                    /\ room'.submissions =
                          Put(room.submissions, room.botId, room.wordSet[first])]_vars

\* the bot has submitted the third word of the word set: the first holds a
\* punished letter, the second is a used word or the human's submission
C30_Witness ==
    /\ Len(room.wordSet) = 3
    /\ room.botId # NullId
    /\ Has(room.submissions, room.botId)
    /\ room.submissions[room.botId] = room.wordSet[3]
    /\ \E l \in room.punishedLetters : Includes(room.wordSet[1], l)
    /\ \/ room.wordSet[2] \in room.usedWords
       \/ \E h \in Humans : Has(room.submissions, h) /\ room.submissions[h] = room.wordSet[2]

----------------------------------------------------------------------------
(* The turn of SpecPick with the human sending raw words *)

\* raw words: with capitals, blanks and accents, in and out of the word sets
SubmitWords == RawWords \cup PickWordSet \cup { <<"B", "é">>, <<Blank, "E", "z", Blank>>, <<"z">> }

PickSubmit(s) ==
    /\ sock[s] = "bound" /\ reg = "live"
    /\ \E word \in SubmitWords : Commit(handleTurnSubmit(M0, s, word, now))
    /\ UNCHANGED <<reg, sock, now, botSeq>>

NextSubmit ==
    \/ NextPick
    \/ \E s \in Humans : PickSubmit(s)

SpecSubmit == InitPick /\ [][NextSubmit]_vars

\* C31: turn:submit from an alive player without a submission, while
\* submissions are accepted, is recorded exactly when the normalized word is
\* not empty, is not a used word, holds no punished letter and is in the word
\* set unless the word set is empty; an empty word set rejects nothing.  A
\* word that is not recorded leaves the room as it is.
C31_Accepted ==
    [][LET valid(n) ==
               /\ n # <<>>
               /\ n \notin room.usedWords
               /\ \A l \in room.punishedLetters : l \notin Range(n)
               /\ room.wordSet = <<>> \/ n \in Range(room.wordSet)
       IN  /\ \A s \in Humans, word \in SubmitWords :
                 (room.accepting /\ IsAlive(room, s) /\ s \notin DOMAIN room.submissions) =>
                    LET m == handleTurnSubmit(M0, s, word, now)
                        n == normalizeWord(word)
                    IN  IF valid(n)
                        THEN /\ m.room.submissions = Put(room.submissions, s, n)
                             /\ HasEv(m.out, "turn:ack")
                        ELSE /\ m.room = room
                             /\ ~HasEv(m.out, "turn:ack")
           /\ \A h \in Humans :
                 (h \notin DOMAIN room.submissions /\ h \in DOMAIN room'.submissions) =>
                    /\ room.accepting /\ IsAlive(room, h)
                    /\ valid(room'.submissions[h])]_vars

\* the word set is empty and the human's word, which no bank holds, is
\* recorded in its normalized form
C31_Witness ==
    /\ room.wordSet = <<>>
    /\ HasEv(emitted, "turn:ack")
    /\ \E h \in Humans : /\ Has(room.submissions, h)
                         /\ room.submissions[h] = <<"z">>

----------------------------------------------------------------------------
\* C32 (as the specification states it): every accepted join, accepted
\* submission and accepted vote, and every phase transition (round start, turn
\* start, turn resolution opening the vote, vote resolution, round end) sets
\* lastActivity to the current time.
C32_ActivityRefreshed ==
    [][/\ (HasEv(emitted', "ack") /\ (emitted' # emitted \/ room' # room)) => touched'
       /\ (\E h \in Humans : h \notin DOMAIN room.submissions
                             /\ h \in DOMAIN room'.submissions) => touched'
       /\ (room.votingActive /\ room'.votingActive /\ room'.votes # room.votes) => touched'
       /\ Runs("wordSetLoaded") => touched'
       /\ (~room.accepting /\ room'.accepting) => touched'
       /\ (~room.votingActive /\ room'.votingActive) => touched'
       /\ (Runs("finalizeVote") /\ room.votingActive) => touched'
       /\ ((Runs("startNextTurn") \/ Runs("gameOver")) /\ HasEv(emitted', "round:end")) =>
             touched']_vars

----------------------------------------------------------------------------
\* C33 (as the specification states it): every key of submissions is the id
\* of a player in the roster; no submission is recorded under the id of a
\* removed bot or under the null id.
C33_SubmissionsInRoster ==
    /\ DOMAIN room.submissions \subseteq DOMAIN room.players
    /\ NullId \notin DOMAIN room.submissions

----------------------------------------------------------------------------
\* C34 (as the specification states it): whenever a human player of the room
\* is online, hostId is the id of an online human player of the room, never
\* the bot's id and never an id that is not in the roster.
C34_HostIsOnlineHuman ==
    (\E h \in Humans : Has(room.players, h) /\ room.players[h].online) =>
        /\ room.hostId \in Humans
        /\ Has(room.players, room.hostId)
        /\ room.players[room.hostId].online

----------------------------------------------------------------------------
\* C35 (as the specification states it): when a disconnect has been handled
\* and no human player of the room is online, the room is out of the registry,
\* also when a bot is in the roster or a game is active.
C35_NoHumanNoRoom ==
    [][(/\ \E s \in Humans : sock[s] = "bound" /\ sock'[s] = "closed"
        /\ ~\E h \in Humans : Has(room'.players, h) /\ room'.players[h].online) =>
          reg' = "killed"]_vars

----------------------------------------------------------------------------
(* The registry: events from clients still bound to a room that was closed *)

\* rooms.has(code) ? rooms.get(code) : a room created and registered
getRoom(registered, r) == IF registered THEN r ELSE createRoom

StaleEvents == {"game:start", "game:restart", "game:menu", "turn:submit", "turn:vote"}

\* an event other than join and disconnect from a client whose room was closed
\* (no callback of the closed room is left to run)
StaleEvent(s) ==
    /\ sock[s] = "bound" /\ reg = "killed" /\ pend = {}
    /\ LET fresh == Start(getRoom(reg = "live", room), pend)
       IN  \E ev \in StaleEvents, theme \in Themes, word \in RawWords, target \in Humans :
              Commit(CASE ev \in {"game:start", "game:restart"} ->
                              handleGameStart(fresh, s, NextBot, theme)
                       [] ev = "game:menu" -> handleGameMenu(fresh, s)
                       [] ev = "turn:submit" -> handleTurnSubmit(fresh, s, word, now)
                       [] ev = "turn:vote" -> handleTurnVote(fresh, s, target))
    /\ reg' = "live"
    /\ UNCHANGED <<sock, now, botSeq>>

\* the socket of such a client closes
StaleDisconnect(s) ==
    /\ sock[s] = "bound" /\ reg = "killed" /\ pend = {}
    /\ LET m == handleDisconnect(Start(getRoom(reg = "live", room), pend), s, NextBot)
       IN  /\ Commit(m)
           /\ reg' = IF Closed(m) THEN "killed" ELSE "live"
    /\ sock' = [sock EXCEPT ![s] = "closed"]
    /\ UNCHANGED <<now, botSeq>>

NextRegistry ==
    \/ Next
    \/ \E s \in Duo : StaleEvent(s)
    \/ \E s \in Duo : StaleDisconnect(s)

SpecRegistry == Init /\ [][NextRegistry]_vars

\* C36 (as the specification states it): only join puts a room into the
\* registry; any other event from a client whose room no longer exists leaves
\* the registry as it is.
C36_OnlyJoinCreates ==
    [][(reg # "live" /\ reg' = "live") =>
          \E s \in Humans : /\ sock'[s] = "bound"
                            /\ HasEv(emitted', "ack")
                            /\ EvOf(emitted', "ack").to = s
                            /\ Has(room'.players, s)]_vars

----------------------------------------------------------------------------
\* C37 (as the specification states it): when a disqualification by vote is
\* decided (at a ballot or at the vote timeout), at least floor(n/2)+1 of the
\* ballots against the target come from players who are alive at that moment,
\* n being the number of alive players other than the target.
C37_LiveBallots ==
    [][\A t \in DOMAIN room.players :
          LET n == Cardinality(AliveSet(room) \ {t})
              live == (Ballots(room, t) \cup Ballots(room', t)) \cap AliveSet(room)
          IN  (/\ room.votingActive
               /\ room' # room
               /\ HasEv(emitted', "vote:eliminated")
               /\ t \in EvOf(emitted', "vote:eliminated").ids) =>
                  Cardinality(live) >= (n \div 2) + 1]_vars

----------------------------------------------------------------------------
\* C38: in every reachable state every alive player is online: a player marked
\* offline is never alive, and the start of a round revives online players only.
C38_AliveIsOnline ==
    \A id \in DOMAIN room.players : room.players[id].alive => room.players[id].online


\* a round has just started in a room with an offline player: the online
\* players are alive, the offline one is not
C38_Witness ==
    /\ HasEv(emitted, "round:start")
    /\ room.turn = 0 /\ StartNextTurnCb \in pend
    /\ \E id \in DOMAIN room.players : ~room.players[id].online /\ ~room.players[id].alive
    /\ \E id \in DOMAIN room.players : room.players[id].alive

----------------------------------------------------------------------------
\* C39: whenever no game is active, no player is alive, submissions are not
\* accepted, no vote is open, and no turn timeout, vote timeout or next-phase
\* timer (next turn, game over) is pending.
C39_IdleRoom ==
    ~room.gameActive =>
        /\ AliveSet(room) = {}
        /\ ~room.accepting
        /\ ~room.votingActive
        /\ ~\E cb \in pend : cb.kind \in {"endTurn", "finalizeVote", "startNextTurn",
                                          "proceedAfterPopup", "gameOver"}

\* a game has been played to its end: the room is back in the lobby with its
\* players online
C39_Witness ==
    /\ reg = "live"
    /\ ~room.gameActive
    /\ room.round >= 1
    /\ HasEv(emitted, "game:end")
    /\ \E h \in Humans : /\ Has(room.players, h)
                         /\ room.players[h].online
                         /\ room.players[h].score > 0

----------------------------------------------------------------------------
\* C40: game:start or game:restart from the connected host of a room without
\* an active game always starts a round (the game becomes active, the round
\* number grows, the word bank load is under way, no error is sent); the only
\* game:error a step ever sends answers a start during an active game, so the
\* test of the online count after the bot injection never rejects.
C40_HostAlwaysStarts ==
    [][/\ \A s \in Humans, theme \in Themes :
             (reg = "live" /\ sock[s] = "bound" /\ s = room.hostId /\ ~room.gameActive) =>
                LET m == handleGameStart(M0, s, NextBot, theme)
                IN  /\ m.room.gameActive
                    /\ m.room.round = room.round + 1
                    /\ WordSetLoadedCb(theme) \in m.pend
                    /\ m.out = <<>>
       /\ (reg' = reg /\ emitted' # emitted /\ HasEv(emitted', "game:error")) =>
             room.gameActive]_vars

\* the host has started a game alone after the other human left: the bot is
\* the second online player of a roster of three
C40_Witness ==
    /\ room.gameActive /\ room.round = 1
    /\ emitted = <<>>
    /\ \E cb \in pend : cb.kind = "wordSetLoaded"
    /\ room.botId # NullId
    /\ Cardinality(DOMAIN room.players) = 3
    /\ Cardinality({id \in DOMAIN room.players : room.players[id].online}) = 2
    /\ Has(room.players, room.hostId) /\ room.players[room.hostId].online

====
